---- MODULE Spec2Model ----
(***************************************************************************)
(* BaseCorrelationTermStructure<Interpolator2D_T>                          *)
(* (ql/experimental/credit/basecorrelationstructure.hpp).                  *)
(*                                                                         *)
(* Dates are serial numbers, tenors are whole numbers of one period unit   *)
(* (one unit = one serial step), loss levels and correlations are whole    *)
(* numbers of percent.  A Matrix is a sequence of rows; the default        *)
(* constructed Matrix() is the empty sequence.  The quote table is a       *)
(* sequence of rows of the CURRENT values of the quotes behind the         *)
(* handles, so that its shape is the shape of correlHandles_ and           *)
(* correlHandles_[i][j]->value() is correlHandles_[i][j].                  *)
(*                                                                         *)
(* When the constructor throws, the variables keep what the constructor    *)
(* had built at the point of the throw and errorMsg names the QL_REQUIRE   *)
(* that failed.                                                            *)
(***************************************************************************)
EXTENDS Integers, Sequences, FiniteSets, TLC

VARIABLES
    phase,            \* "Constructing", "Ready", "Failed" (ctor threw), "Crashed" (undefined behaviour)
    errorMsg,         \* which QL_REQUIRE of the constructor failed, "" if none
    refDate,          \* TermStructure::referenceDate()
    generated,        \* the maturity the constructor's loop generated for each tenor
    tenors_,
    lossLevel_,
    nLosses_,
    correlHandles_,
    correlations_,
    trancheDates_,
    trancheTimes_,
    interpolation_,
    registered,       \* table positions the surface has called registerWith on
    last              \* the last operation, its arguments and what it returned

vars == <<phase, errorMsg, refDate, generated, tenors_, lossLevel_,
          nLosses_, correlHandles_, correlations_, trancheDates_, trancheTimes_,
          interpolation_, registered, last>>

--------------------------------------------------------------------------
(* Bounds of the model and the sets the inputs are drawn from *)

MaxTenors == 2        \* longest TenorSequence
MaxLosses == 2        \* longest LossLevelSequence and most table rows
MaxCols == 2          \* most columns of a row of the quote table
MaxQuote == 2         \* quote values are 1..MaxQuote (percent)

FullLoss == 100       \* the 1. of checkLosses, in percent

TenorValues == {0, 1, 4}
LossValues == {0, 50, 100, 150}
QuoteValues == 1..MaxQuote
NullDate == 0         \* Date(), the null date
InitialRefDate == 3   \* referenceDate() when the surface is constructed
LastRefDate == InitialRefDate + 1
StartDates == {NullDate, 2}
Rules == {"none", "CDS"}
Conventions == {"Following"}
\* (time, loss level) query points: inside the usual grid, beyond its last time, beyond its last loss level
QueryPoints == {<<2, 50>>, <<9, 50>>, <<2, 150>>}
QueryDates == {InitialRefDate + 2}

SeqsUpTo(S, n) == UNION {[1..k -> S] : k \in 1..n}

TenorSequences == SeqsUpTo(TenorValues, MaxTenors)
LossLevelSequences == SeqsUpTo(LossValues, MaxLosses)

\* the quote a freshly built table holds at (i, j)
InitialQuote(i, j) == ((i + j) % MaxQuote) + 1

\* tables of 1..MaxLosses rows, each row of 1..MaxCols handles (rows may be of unequal length)
QuoteTables ==
    {[i \in 1..Len(shape) |-> [j \in 1..shape[i] |-> InitialQuote(i, j)]] :
        shape \in SeqsUpTo(1..MaxCols, MaxLosses)}

--------------------------------------------------------------------------
(* Collaborators: calendar, schedule, day counter *)

IsHoliday(d) == (d % 7) \in {6, 0}

adjust(d, c) ==
    IF c = "Following"
    THEN CHOOSE x \in d..(d + 2) :
            ~IsHoliday(x) /\ \A y \in d..(x - 1) : IsHoliday(y)
    ELSE CHOOSE x \in (d - 2)..d :
            ~IsHoliday(x) /\ \A y \in (x + 1)..d : IsHoliday(y)

advance(d, n, c) == adjust(d + n, c)

isCdsRule(r) == r \in {"CDS2015", "CDS", "OldCDS"}

\* the next quarterly roll date on or after start + tenor
cdsMaturity(start, tenor, r) ==
    CHOOSE x \in (start + tenor)..(start + tenor + 2) : x % 3 = 0

\* the last date of the schedule from start to d (termination date Unadjusted)
scheduleBack(start, d, r) == d

timeFromReference(d, ref) == d - ref

--------------------------------------------------------------------------
(* Matrix *)

Matrix(r, c, v) == [i \in 1..r |-> [j \in 1..c |-> v]]
rows(m) == Len(m)
columns(m) == IF Len(m) = 0 THEN 0 ELSE Len(m[1])

--------------------------------------------------------------------------
(* Grid Validator *)

\* checkTrancheTenors accepting a tenor equal to its predecessor
checkTrancheTenors_NonStrict(tenors) ==
    IF ~(tenors[1] > 0) THEN "first tranche tenor is negative"
    ELSE IF \E i \in 2..Len(tenors) : ~(tenors[i] >= tenors[i - 1])
         THEN "non increasing tranche tenor"
         ELSE ""

\* "" when every QL_REQUIRE passes, else the one that fails
checkTrancheTenors(tenors) ==
    IF ~(tenors[1] > 0) THEN "first tranche tenor is negative"
    ELSE IF \E i \in 2..Len(tenors) : ~(tenors[i] > tenors[i - 1])
         THEN "non increasing tranche tenor"
         ELSE ""

checkLosses(lossLevel, nLosses) ==
    IF ~(lossLevel[1] > 0) THEN "first loss level is negative"
    ELSE IF ~(lossLevel[1] <= FullLoss) THEN "First loss level larger than 100%"
    ELSE IF \E i \in 2..nLosses :
                /\ \A k \in 2..(i - 1) :
                      lossLevel[k] > lossLevel[k - 1] /\ lossLevel[k] <= FullLoss
                /\ ~(lossLevel[i] > lossLevel[i - 1])
         THEN "non increasing losses"
    ELSE IF \E i \in 2..nLosses : ~(lossLevel[i] <= FullLoss)
         THEN "Loss level larger than 100%"
         ELSE ""

checkInputs(nLosses, tenors, volRows, volsColumns) ==
    IF ~(nLosses = volRows) THEN "mismatch between number of loss levels and number of rows"
    ELSE IF ~(Len(tenors) = volsColumns)
         THEN "mismatch between number of tranche tenors and number of columns"
         ELSE ""

--------------------------------------------------------------------------
(* Maturity Date Generator: the body of the constructor's loop *)

maturityDate(start, tenor, r, cldr) ==
    IF r # "none"
    THEN LET d0 == start + tenor
             d1 == IF isCdsRule(r) THEN cdsMaturity(start, tenor, r) ELSE d0
         IN adjust(scheduleBack(start, d1, r), cldr)
    ELSE advance(start, tenor, cldr)

\* isKept keeping a maturity that falls on the reference date
isKept_OnReferenceDate(d, ref) == ~(d < ref)

\* only keep future dates: if (d <= refDate) continue;
isKept(d, ref) == ~(d <= ref)

generatedDates(tenors, start, r, cldr) ==
    [i \in 1..Len(tenors) |-> maturityDate(start, tenors[i], r, cldr)]

RECURSIVE pushBackKept(_, _, _)
pushBackKept(dates, ref, i) ==
    IF i = 0 THEN <<>>
    ELSE IF isKept(dates[i], ref)
         THEN Append(pushBackKept(dates, ref, i - 1), dates[i])
         ELSE pushBackKept(dates, ref, i - 1)

\* hasTrancheDates that never throws
hasTrancheDates_Unchecked(dates) == TRUE

\* QL_REQUIRE(!trancheDates_.empty(), ...)
hasTrancheDates(dates) == ~(dates = <<>>)

initializeTrancheTimes(dates, ref) ==
    [i \in 1..Len(dates) |-> timeFromReference(dates[i], ref)]

\* maxDate returning the first date of the grid
maxDate_Front(dates) == dates[1]

maxDate(dates) == dates[Len(dates)]

--------------------------------------------------------------------------
(* Quote Matrix Adapter *)

Crash == -1
\* what a read outside a row of the table may do: end the program or yield any value
UBOutcomes == {Crash} \cup QuoteValues

\* tenorStartIndex ignoring the removed tenors
tenorStartIndex_Zero(handles, corr) == 0

\* Size arithmetic wraps: a negative difference is an index beyond every row
tenorStartIndex(handles, corr) == Len(handles[1]) - columns(corr)

inRow(handles, i, k) == i \in 1..Len(handles) /\ k \in 1..Len(handles[i])

updateMatrixInBounds(handles, corr) ==
    \A i \in 1..rows(corr) : \A j \in 1..columns(corr) :
        inRow(handles, i, tenorStartIndex(handles, corr) + j)

updateMatrix(handles, corr, garbage) ==
    LET start == tenorStartIndex(handles, corr)
    IN [i \in 1..rows(corr) |->
          [j \in 1..columns(corr) |->
              IF inRow(handles, i, start + j)
              THEN handles[i][start + j]
              ELSE garbage]]

\* registerWithMarketData registering the first row only
registerWithMarketData_FirstRow(handles) ==
    {<<1, j>> : j \in 1..Len(handles[1])}

\* the positions registerWith is called on
registerWithMarketData(handles) ==
    {<<i, j>> : i \in 1..Len(handles), j \in 1..Len(handles[1])}

registerInBounds(handles) ==
    \A p \in registerWithMarketData(handles) : inRow(handles, p[1], p[2])

--------------------------------------------------------------------------
(* Interpolation Engine *)

NoInterpolation == [x |-> <<>>, y |-> <<>>, z |-> <<>>]

\* build(grid-x, grid-y, matrix)
setupInterpolation(times, losses, corr) == [x |-> times, y |-> losses, z |-> corr]

isInRange(interp, x, y) ==
    /\ interp.x[1] <= x /\ x <= interp.x[Len(interp.x)]
    /\ interp.y[1] <= y /\ y <= interp.y[Len(interp.y)]

\* the last knot not after v, the first knot when there is none
locate(grid, v) ==
    LET below == {k \in 1..Len(grid) : grid[k] <= v}
    IN IF below = {} THEN 1
       ELSE CHOOSE k \in below : \A m \in below : m <= k

NoValue == 0 - 1

\* query(x, y, allowExtrapolation): the value at a knot is the knot's value
interpolate(interp, x, y, allowExtrapolation) ==
    IF ~allowExtrapolation /\ ~isInRange(interp, x, y)
    THEN [status |-> "ExtrapolationNotAllowed", value |-> NoValue]
    ELSE [status |-> "value",
          value |-> interp.z[locate(interp.y, y)][locate(interp.x, x)]]

correlation(interp, t, lossLevel, extrapolate) ==
    interpolate(interp, t, lossLevel, TRUE)

--------------------------------------------------------------------------
(* Correlation Surface *)

NoArg == 0 - 1

MkLast(op, row, col, value, t, loss, extrapolate, status) ==
    [op |-> op, row |-> row, col |-> col, value |-> value, t |-> t,
     loss |-> loss, extrapolate |-> extrapolate, status |-> status]

NoLast == MkLast("none", NoArg, NoArg, NoArg, NoArg, NoArg, FALSE, "")

\* The constructor: the state it leaves, built up to the point where it
\* returns, throws or runs into undefined behaviour.
Ctor(tenors, lossLevel, correls, startArg, r, cldr, ref, ub) ==
    LET start == IF startArg = NullDate THEN ref ELSE startArg
        tenorErr == checkTrancheTenors(tenors)
        gen == generatedDates(tenors, start, r, cldr)
        dates == pushBackKept(gen, ref, Len(gen))
        zero == Matrix(Len(correls), Len(dates), 0)
        times == initializeTrancheTimes(dates, ref)
        inputErr == checkInputs(Len(lossLevel), tenors, rows(zero), columns(zero))
        m == updateMatrix(correls, zero, ub)
        reg == {p \in registerWithMarketData(correls) : inRow(correls, p[1], p[2])}
        thrown == [phase |-> "Failed", errorMsg |-> tenorErr,
                   generated |-> <<>>, trancheDates |-> <<>>, trancheTimes |-> <<>>,
                   correlations |-> <<>>, registered |-> {},
                   interpolation |-> NoInterpolation]
    IN IF tenorErr # "" THEN thrown
       ELSE IF ~hasTrancheDates(dates)
            THEN [thrown EXCEPT !.errorMsg = "no tranche dates left after removing expired tenors",
                                !.generated = gen, !.trancheDates = dates]
       ELSE IF inputErr # ""
            THEN [thrown EXCEPT !.errorMsg = inputErr, !.generated = gen, !.trancheDates = dates,
                                !.trancheTimes = times, !.correlations = zero]
       ELSE IF ~updateMatrixInBounds(correls, zero) /\ ub = Crash
            THEN [thrown EXCEPT !.phase = "Crashed", !.errorMsg = "", !.generated = gen,
                                !.trancheDates = dates, !.trancheTimes = times,
                                !.correlations = zero]
       ELSE IF ~registerInBounds(correls) /\ ub = Crash
            THEN [thrown EXCEPT !.phase = "Crashed", !.errorMsg = "", !.generated = gen,
                                !.trancheDates = dates, !.trancheTimes = times,
                                !.correlations = m, !.registered = reg]
       ELSE [phase |-> "Ready", errorMsg |-> "", generated |-> gen,
             trancheDates |-> dates, trancheTimes |-> times,
             correlations |-> m, registered |-> reg,
             interpolation |-> setupInterpolation(times, lossLevel, m)]

\* the outcomes a call may have: one when every read is inside the table
Outcomes(inBounds) == IF inBounds THEN {1} ELSE UBOutcomes

Init ==
    /\ phase = "Constructing"
    /\ errorMsg = ""
    /\ refDate = InitialRefDate
    /\ generated = <<>>
    /\ tenors_ = <<>>
    /\ lossLevel_ = <<>>
    /\ nLosses_ = 0
    /\ correlHandles_ = <<>>
    /\ correlations_ = <<>>
    /\ trancheDates_ = <<>>
    /\ trancheTimes_ = <<>>
    /\ interpolation_ = NoInterpolation
    /\ registered = {}
    /\ last = NoLast

Construct ==
    /\ phase = "Constructing"
    /\ \E tenors \in TenorSequences, lossLevel \in LossLevelSequences,
          correls \in QuoteTables, startArg \in StartDates, r \in Rules,
          cldr \in Conventions :
          \E ub \in Outcomes(/\ updateMatrixInBounds(correls,
                                    Matrix(Len(correls), Len(tenors), 0))
                             /\ registerInBounds(correls)) :
            LET c == Ctor(tenors, lossLevel, correls, startArg, r, cldr, refDate, ub)
            IN /\ phase' = c.phase
               /\ errorMsg' = c.errorMsg
               /\ generated' = c.generated
               /\ tenors_' = tenors
               /\ lossLevel_' = lossLevel
               /\ nLosses_' = Len(lossLevel)
               /\ correlHandles_' = correls
               /\ correlations_' = c.correlations
               /\ trancheDates_' = c.trancheDates
               /\ trancheTimes_' = c.trancheTimes
               /\ interpolation_' = c.interpolation
               /\ registered' = c.registered
               /\ last' = MkLast("construct", NoArg, NoArg, NoArg, NoArg, NoArg, FALSE, c.errorMsg)
    /\ UNCHANGED refDate

\* update(): updateMatrix(); TermStructure::update();
\* handles are the quotes as they are when update() runs
update(handles, ub) ==
    IF ~updateMatrixInBounds(handles, correlations_) /\ ub = Crash
    THEN /\ phase' = "Crashed"
         /\ correlations_' = correlations_
    ELSE /\ phase' = phase
         /\ correlations_' = updateMatrix(handles, correlations_, ub)

\* a quote of the table is set to a new value and notifies its observers
SetValue ==
    /\ phase = "Ready"
    /\ \E i \in 1..Len(correlHandles_) : \E j \in 1..Len(correlHandles_[i]) :
       \E v \in QuoteValues \ {correlHandles_[i][j]} :
          /\ correlHandles_' = [correlHandles_ EXCEPT ![i][j] = v]
          /\ IF <<i, j>> \in registered
             THEN \E ub \in Outcomes(updateMatrixInBounds(correlHandles_, correlations_)) :
                     update(correlHandles_', ub)
             ELSE UNCHANGED <<phase, correlations_>>
          /\ last' = MkLast("setValue", i, j, v, NoArg, NoArg, FALSE, "")
    /\ UNCHANGED <<errorMsg, refDate, generated, tenors_, lossLevel_,
                   nLosses_, trancheDates_, trancheTimes_, interpolation_, registered>>

\* update() called from outside
Update ==
    /\ phase = "Ready"
    /\ \E ub \in Outcomes(updateMatrixInBounds(correlHandles_, correlations_)) :
          update(correlHandles_, ub)
    /\ last' = MkLast("update", NoArg, NoArg, NoArg, NoArg, NoArg, FALSE, "")
    /\ UNCHANGED <<errorMsg, refDate, generated, tenors_, lossLevel_,
                   nLosses_, correlHandles_, trancheDates_, trancheTimes_,
                   interpolation_, registered>>

\* the evaluation date moves on: the reference date follows and update() runs
MoveReferenceDate ==
    /\ phase = "Ready"
    /\ refDate < LastRefDate
    /\ refDate' = refDate + 1
    /\ \E ub \in Outcomes(updateMatrixInBounds(correlHandles_, correlations_)) :
          update(correlHandles_, ub)
    /\ last' = MkLast("moveReferenceDate", NoArg, NoArg, NoArg, NoArg, NoArg, FALSE, "")
    /\ UNCHANGED <<errorMsg, generated, tenors_, lossLevel_,
                   nLosses_, correlHandles_, trancheDates_, trancheTimes_,
                   interpolation_, registered>>

\* correlation(Time t, Real lossLevel, bool extrapolate)
QueryTime ==
    /\ phase = "Ready"
    /\ \E q \in QueryPoints, extrapolate \in BOOLEAN :
          LET t == q[1]
              loss == q[2]
              res == correlation(interpolation_, t, loss, extrapolate)
          IN last' = MkLast("correlation", NoArg, NoArg, res.value, t, loss,
                            extrapolate, res.status)
    /\ UNCHANGED <<phase, errorMsg, refDate, generated, tenors_,
                   lossLevel_, nLosses_, correlHandles_, correlations_,
                   trancheDates_, trancheTimes_, interpolation_, registered>>

\* correlation(const Date& d, Real lossLevel, bool extrapolate)
QueryDate ==
    /\ phase = "Ready"
    /\ \E d \in QueryDates, extrapolate \in BOOLEAN :
          LET t == timeFromReference(d, refDate)
              loss == 50
              res == correlation(interpolation_, t, loss, extrapolate)
          IN last' = MkLast("correlation", NoArg, NoArg, res.value, t, loss,
                            extrapolate, res.status)
    /\ UNCHANGED <<phase, errorMsg, refDate, generated, tenors_,
                   lossLevel_, nLosses_, correlHandles_, correlations_,
                   trancheDates_, trancheTimes_, interpolation_, registered>>

\* maxDate()
QueryMaxDate ==
    /\ phase = "Ready"
    /\ last' = MkLast("maxDate", NoArg, NoArg, maxDate(trancheDates_), NoArg, NoArg, FALSE, "value")
    /\ UNCHANGED <<phase, errorMsg, refDate, generated, tenors_,
                   lossLevel_, nLosses_, correlHandles_, correlations_,
                   trancheDates_, trancheTimes_, interpolation_, registered>>

Next ==
    \/ Construct
    \/ QueryMaxDate
    \/ SetValue
    \/ Update
    \/ MoveReferenceDate
    \/ QueryTime
    \/ QueryDate

Spec == Init /\ [][Next]_vars

--------------------------------------------------------------------------
(* Vocabulary of the properties *)

\* T: the tenor columns of the quote table; T': the surviving grid
TableColumns == Len(correlHandles_[1])
Surviving == Len(trancheDates_)
Offset == TableColumns - Surviving

Rectangular == \A i \in 1..Len(correlHandles_) : Len(correlHandles_[i]) = TableColumns

\* a table of whole rows that has a column for every surviving tenor
WellFormedTable == Rectangular /\ Surviving <= TableColumns

Constructed == phase = "Ready"
CtorReturned == phase # "Constructing"

BadTenors ==
    \/ tenors_[1] <= 0
    \/ \E i \in 2..Len(tenors_) : tenors_[i] <= tenors_[i - 1]

BadLosses ==
    \/ lossLevel_[1] <= 0
    \/ \E i \in 1..Len(lossLevel_) : lossLevel_[i] > FullLoss
    \/ \E i \in 2..Len(lossLevel_) : lossLevel_[i] <= lossLevel_[i - 1]

\* the maturities generated on or before the reference date of the construction
Expired == {k \in 1..Len(generated) : generated[k] <= InitialRefDate}

TenorCheckMessages == {"first tranche tenor is negative", "non increasing tranche tenor"}
NoDatesMessage == "no tranche dates left after removing expired tenors"

--------------------------------------------------------------------------
(* C1: a TenorSequence of T tenors whose non-empty strict prefix generates  *)
(* maturities on or before the reference date, given with a table of       *)
(* |LossLevelSequence| rows of T quotes, constructs a surface whose         *)
(* snapshot has shape (|LossLevelSequence|, T') and column offset T - T'.   *)
C1_ExpiredPrefixConstructs ==
    ( /\ CtorReturned
      /\ generated # <<>>
      /\ Expired # {}
      /\ Expired = 1..Cardinality(Expired)
      /\ Cardinality(Expired) < Len(generated)
      /\ ~BadLosses
      /\ Len(correlHandles_) = Len(lossLevel_)
      /\ Rectangular
      /\ TableColumns = Len(tenors_) )
    => ( /\ Constructed
         /\ rows(correlations_) = Len(lossLevel_)
         /\ columns(correlations_) = Len(generated) - Cardinality(Expired)
         /\ tenorStartIndex(correlHandles_, correlations_) = Cardinality(Expired) )

C3_OutOfGridQueryFails ==
    ( /\ last.op = "correlation"
      /\ ~BadLosses
      /\ ~last.extrapolate
      /\ ~isInRange(interpolation_, last.t, last.loss) )
    => (last.status = "ExtrapolationNotAllowed" /\ last.value = NoValue)

(* C4: every correlation query is answered from a snapshot equal to the     *)
(* live quotes and from an interpolation built over that snapshot.          *)
C4_QueriesSeeLiveQuotes ==
    (Constructed /\ WellFormedTable /\ ~BadLosses /\ last.op = "correlation")
    => /\ \A i \in 1..Len(lossLevel_) : \A j \in 1..Surviving :
            correlations_[i][j] = correlHandles_[i][Offset + j]
       /\ interpolation_.z = correlations_

(* C5: construction fails when the first loss level is not strictly         *)
(* positive, a level exceeds 1.0 or a level is not above its predecessor;   *)
(* no constructed surface has such a loss-level grid.                       *)
C5_BadLossesRejected ==
    /\ (CtorReturned /\ phase # "Crashed" /\ BadLosses) => phase = "Failed"
    /\ Constructed => ~BadLosses

(* C6: a TenorSequence whose first tenor is not strictly positive or that   *)
(* is not strictly increasing makes the constructor throw before any        *)
(* maturity is generated, any snapshot is built or any quote is subscribed. *)
C6_BadTenorsFailFirst ==
    (CtorReturned /\ BadTenors)
    => /\ phase = "Failed"
       /\ errorMsg \in TenorCheckMessages
       /\ generated = <<>>
       /\ trancheDates_ = <<>>
       /\ trancheTimes_ = <<>>
       /\ correlations_ = <<>>
       /\ registered = {}
       /\ interpolation_ = NoInterpolation

C6_Witness ==
    /\ phase = "Failed"
    /\ Len(tenors_) = 2
    /\ tenors_[1] > 0
    /\ tenors_[2] <= tenors_[1]
    /\ errorMsg = "non increasing tranche tenor"

(* C7: the MaturityDateGrid holds exactly the generated maturities that     *)
(* fall strictly after the reference date, in tenor order, and they are a   *)
(* contiguous suffix: grid position j is original tenor (T - T') + j.       *)
C7_GridIsFutureSuffix ==
    (generated # <<>>)
    => LET T == Len(generated)
           Tp == Len(trancheDates_)
       IN /\ T = Len(tenors_)
          /\ Tp = T - Cardinality(Expired)
          /\ \A j \in 1..Tp :
                /\ trancheDates_[j] = generated[(T - Tp) + j]
                /\ trancheDates_[j] > InitialRefDate
          /\ \A k \in 1..(T - Tp) : generated[k] <= InitialRefDate

C7_Witness ==
    /\ Len(generated) = 2
    /\ Len(trancheDates_) = 1
    /\ generated[1] = InitialRefDate
    /\ trancheDates_[1] = generated[2]

(* C8: maxDate() is the last and latest date of the MaturityDateGrid, the   *)
(* maturity generated for the last tenor, and no operation on a             *)
(* constructed surface changes it.                                          *)
C8_MaxDateIsLastMaturity ==
    /\ [](last.op = "maxDate" =>
            /\ last.value = trancheDates_[Len(trancheDates_)]
            /\ last.value = generated[Len(tenors_)]
            /\ \A j \in 1..Len(trancheDates_) : trancheDates_[j] <= last.value)
    /\ [][Constructed => maxDate(trancheDates_') = maxDate(trancheDates_)]_vars

C8_Witness ==
    /\ Constructed
    /\ Len(trancheDates_) = 2
    /\ trancheDates_[1] < trancheDates_[2]
    /\ refDate > InitialRefDate
    /\ \E i \in 1..Len(correlHandles_) : \E j \in 1..Len(correlHandles_[i]) :
          correlHandles_[i][j] # InitialQuote(i, j)
    /\ last.op = "maxDate"

(* C9: when every generated maturity is discarded the constructor throws    *)
(* before the snapshot is sized and before any quote is subscribed; the     *)
(* MaturityDateGrid of a constructed surface is never empty.                *)
C9_EmptyGridFails ==
    /\ (CtorReturned /\ generated # <<>> /\ Cardinality(Expired) = Len(generated))
       => /\ phase = "Failed"
          /\ errorMsg = NoDatesMessage
          /\ trancheDates_ = <<>>
          /\ correlations_ = <<>>
          /\ registered = {}
    /\ Constructed => trancheDates_ # <<>>

C9_Witness ==
    /\ phase = "Failed"
    /\ errorMsg = NoDatesMessage
    /\ generated # <<>>
    /\ \A k \in 1..Len(generated) : generated[k] <= InitialRefDate

C11_TimesFollowReferenceDate ==
    ( /\ Constructed
      /\ WellFormedTable
      /\ ~BadLosses
      /\ last.op \in {"update", "moveReferenceDate", "setValue"} )
    => /\ Len(trancheTimes_) = Len(trancheDates_)
       /\ \A i \in 1..Len(trancheDates_) :
             trancheTimes_[i] = timeFromReference(trancheDates_[i], refDate)

(* C12: for every quote table the constructor goes through with, the offset *)
(* (columns of the first table row) - (snapshot columns) does not underflow *)
(* and every correlHandles_[i][offset + j] read, at construction and in any *)
(* later update(), lies inside row i.                                       *)
C12_TableAccessInBounds ==
    (phase \in {"Ready", "Crashed"} /\ ~BadLosses)
    => /\ Len(correlHandles_[1]) >= columns(correlations_)
       /\ \A i \in 1..rows(correlations_) : \A j \in 1..columns(correlations_) :
             /\ i <= Len(correlHandles_)
             /\ (Len(correlHandles_[1]) - columns(correlations_)) + j >= 1
             /\ (Len(correlHandles_[1]) - columns(correlations_)) + j <= Len(correlHandles_[i])

====
